---- MODULE Spec2Model ----
(***************************************************************************)
(* Model of the Last.fm playback tracker of src/src/scrobbler.rs: the      *)
(* Scrobbler struct, update_current_track (on_track_changed) and the       *)
(* Future::poll implementation (advance).                                  *)
(***************************************************************************)
EXTENDS Integers, Sequences, FiniteSets, TLC

\* ---- bounds of the model ----
MaxTime == 21      \* seconds of a track's play time explored
MaxInst == 2       \* number of accepted track changes explored

\* the SpotifyIds the player reports
Tracks == {1, 2}
Results == {"ok", "err"}

\* Duration::new(20, 0), in seconds
Threshold == 20

\* ---- Option<T> ----
None == <<>>
Some(x) == <<x>>
IsSome(o) == o # <<>>
Unwrap(o) == o[1]

\* ---- BoxFuture: st is what the next poll() of the future yields ----
\*   "empty"/"pending" -> NotReady, "ok" -> Ready(val), "err" -> Err,
\*   "noartists" -> the closure panics, "consumed" -> polled after completion
\* inst tags the track instance the operation was started for.
Fut(st, val, i) == [st |-> st, val |-> val, inst |-> i]
empty == Fut("empty", None, 0)
PollOf(f) ==
    CASE f.st \in {"empty", "pending"} -> "NotReady"
      [] f.st = "ok" -> "Ready"
      [] f.st = "err" -> "Err"
      [] OTHER -> "Panic"
Consumed(f) == [f EXCEPT !.st = "consumed"]

VARIABLES
    current_track_id,          \* Option<SpotifyId>
    current_track_start,       \* Option<Instant>
    current_track_meta,        \* Option<Scrobble>
    current_track_scrobbled,   \* bool
    auth_future,
    new_track_future,
    now_playing_future,
    meta_fetch_future,
    scrobble_future,           \* Option<BoxFuture>
    now,                       \* Instant::now(), in seconds since the epoch
    inst,                      \* number of accepted track changes so far
    backend_log,               \* calls made to rustfm_scrobble, in order
    fetch_log,                 \* calls of get_track_meta, in order
    authenticated,             \* a poll has seen auth_future Ready
    scrobbled_ok,              \* instances whose submission was seen Ready
    last                       \* the last call made and what it returned

progvars == <<current_track_id, current_track_start, current_track_meta,
              current_track_scrobbled, auth_future, new_track_future,
              now_playing_future, meta_fetch_future, scrobble_future>>
vars == <<current_track_id, current_track_start, current_track_meta,
          current_track_scrobbled, auth_future, new_track_future,
          now_playing_future, meta_fetch_future, scrobble_future,
          now, inst, backend_log, fetch_log, authenticated, scrobbled_ok, last>>

\* the struct as a record, threaded through the statements of a method
Self ==
    [id |-> current_track_id, start |-> current_track_start,
     meta |-> current_track_meta, scrobbled |-> current_track_scrobbled,
     auth |-> auth_future, new_track |-> new_track_future,
     now_playing |-> now_playing_future, meta_fetch |-> meta_fetch_future,
     scrobble |-> scrobble_future,
     inst |-> inst, log |-> backend_log, fetches |-> fetch_log, ok |-> scrobbled_ok,
     authed |-> authenticated,
     ret |-> "none", polled |-> {}, failAt |-> "none", done |-> 0,
     snap |-> [meta |-> current_track_meta, scrobbled |-> current_track_scrobbled]]

Store(s) ==
    /\ current_track_id' = s.id
    /\ current_track_start' = s.start
    /\ current_track_meta' = s.meta
    /\ current_track_scrobbled' = s.scrobbled
    /\ auth_future' = s.auth
    /\ new_track_future' = s.new_track
    /\ now_playing_future' = s.now_playing
    /\ meta_fetch_future' = s.meta_fetch
    /\ scrobble_future' = s.scrobble
    /\ inst' = s.inst
    /\ backend_log' = s.log
    /\ fetch_log' = s.fetches
    /\ authenticated' = s.authed
    /\ scrobbled_ok' = s.ok

NoCall == [op |-> "env"]

\* Scrobbler::new: auth() has already called authenticate_with_password
Init ==
    /\ current_track_id = None
    /\ current_track_start = None
    /\ current_track_meta = None
    /\ current_track_scrobbled = FALSE
    /\ \E r \in Results : auth_future = Fut(r, None, 0)
    /\ new_track_future = empty
    /\ now_playing_future = empty
    /\ meta_fetch_future = empty
    /\ scrobble_future = None
    /\ now = 0
    /\ inst = 0
    /\ backend_log = <<>>
    /\ fetch_log = <<>>
    /\ authenticated = FALSE
    /\ scrobbled_ok = {}
    /\ last = NoCall

\* ---- helpers of the impl ----
\* mutant: a submission in flight is not looked at
can_scrobble_track_noinflight(s, t) ==
    IF s.scrobbled THEN FALSE
    ELSE IF IsSome(s.start) THEN t - Unwrap(s.start) > Threshold
    ELSE FALSE

\* mutant: the threshold compared with >= instead of >
can_scrobble_track_ge(s, t) ==
    IF s.scrobbled THEN FALSE
    ELSE IF IsSome(s.scrobble) THEN FALSE
    ELSE IF IsSome(s.start) THEN t - Unwrap(s.start) >= Threshold
    ELSE FALSE

can_scrobble_track(s, t) ==
    IF s.scrobbled THEN FALSE
    ELSE IF IsSome(s.scrobble) THEN FALSE
    ELSE IF IsSome(s.start) THEN t - Unwrap(s.start) > Threshold
    ELSE FALSE

\* r: what self.scrobbler.scrobble(scrobble) returns
send_scrobble(s, scrobble, r) ==
    [s EXCEPT !.scrobble = Some(Fut(r, None, s.inst)),
              !.log = Append(@, [call |-> "scrobble", meta |-> scrobble, inst |-> s.inst])]

\* mutant: without metadata an empty Scrobble is submitted
start_scrobble_blank(s, r) ==
    IF IsSome(s.meta) THEN send_scrobble(s, Unwrap(s.meta), r)
    ELSE send_scrobble(s, [track |-> 0, inst |-> 0], r)

start_scrobble(s, r) ==
    IF IsSome(s.meta) THEN send_scrobble(s, Unwrap(s.meta), r)
    ELSE [s EXCEPT !.scrobble = None]

\* mutant: the start time of the previous track is kept
set_new_track_keepstart(s, track_id, t) ==
    [s EXCEPT !.id = Some(track_id), !.meta = None,
              !.scrobbled = FALSE, !.inst = @ + 1,
              !.new_track = Fut("ok", None, s.inst + 1)]

\* mutant: the scrobbled flag survives the track change
set_new_track_keepflag(s, track_id, t) ==
    [s EXCEPT !.id = Some(track_id), !.start = Some(t), !.meta = None,
              !.inst = @ + 1,
              !.new_track = Fut("ok", None, s.inst + 1)]

set_new_track(s, track_id, t) ==
    [s EXCEPT !.id = Some(track_id), !.start = Some(t), !.meta = None,
              !.scrobbled = FALSE, !.inst = @ + 1,
              !.new_track = Fut("ok", None, s.inst + 1)]

\* the resolver chain is in flight; val is the Scrobble it yields if all
\* three lookups succeed
get_track_meta(s, track_id) ==
    Fut("pending", Some([track |-> track_id, inst |-> s.inst]), s.inst)

\* r: what self.scrobbler.now_playing(track) returns
send_now_playing(s, track, r) ==
    [s EXCEPT !.now_playing = Fut(r, None, s.inst),
              !.log = Append(@, [call |-> "now_playing", meta |-> track, inst |-> s.inst])]

\* mutant: the track is replaced before the outgoing one is scrobbled
update_current_track_body_swapped(s, track_id, force_new_track, t, r) ==
    IF ~force_new_track /\ s.id = Some(track_id) THEN s
    ELSE LET s1 == set_new_track(s, track_id, t)
         IN  IF can_scrobble_track(s1, t) THEN start_scrobble(s1, r) ELSE s1

\* mutant: every report counts as a new track
update_current_track_body_always(s, track_id, force_new_track, t, r) ==
    LET s1 == IF can_scrobble_track(s, t) THEN start_scrobble(s, r) ELSE s
    IN  set_new_track(s1, track_id, t)

update_current_track_body(s, track_id, force_new_track, t, r) ==
    IF ~force_new_track /\ s.id = Some(track_id) THEN s
    ELSE LET s1 == IF can_scrobble_track(s, t) THEN start_scrobble(s, r) ELSE s
         IN  set_new_track(s1, track_id, t)

\* An Instant is opaque: the code only reads the difference between
\* Instant::now() and current_track_start (line 180). The clock is therefore
\* kept relative to current_track_start: whenever the start is set, the epoch
\* moves to it.
Epoch(s) == IF IsSome(s.start) THEN Unwrap(s.start) ELSE 0
Rebase(s) == [s EXCEPT !.start = IF IsSome(@) THEN Some(0) ELSE None]

update_current_track(track_id, force_new_track, r) ==
    /\ inst < MaxInst \/ (~force_new_track /\ current_track_id = Some(track_id))
    /\ \E s \in {update_current_track_body(Self, track_id, force_new_track, now, r)} :
           /\ Store(Rebase(s))
           /\ now' = now - Epoch(s)
    /\ last' = [op |-> "update", id |-> track_id, force |-> force_new_track]

\* ---- Future::poll, statement by statement ----
\* a statement runs only if no earlier one has returned or panicked
Running(s) == s.ret = "none"
Polls(s, slot) == [s EXCEPT !.polled = @ \cup {slot},
                            !.snap = [meta |-> s.meta, scrobbled |-> s.scrobbled]]
Return(s, ret, slot) == [s EXCEPT !.ret = ret, !.failAt = slot]

\* mutant: an authentication error is logged and polling goes on
poll_auth_noreturn(s0) ==
    LET s == Polls(s0, "auth") p == PollOf(s.auth)
    IN  CASE p = "Ready" -> [s EXCEPT !.auth = empty, !.authed = TRUE]
          [] p = "NotReady" -> s
          [] p = "Err" -> [s EXCEPT !.auth = Consumed(@)]
          [] OTHER -> Return(s, "Panic", "auth")

\* mutant: the authentication future is left in its slot once it is Ready
poll_auth_noclear(s0) ==
    LET s == Polls(s0, "auth") p == PollOf(s.auth)
    IN  CASE p = "Ready" -> s
          [] p = "NotReady" -> s
          [] p = "Err" -> Return([s EXCEPT !.auth = Consumed(@)], "Fatal", "auth")
          [] OTHER -> Return(s, "Panic", "auth")

\* mutant: an authentication error is logged, the slot is emptied and polling
\* goes on
poll_auth_swallow(s0) ==
    LET s == Polls(s0, "auth") p == PollOf(s.auth)
    IN  CASE p = "Ready" -> [s EXCEPT !.auth = empty, !.authed = TRUE]
          [] p = "NotReady" -> s
          [] p = "Err" -> [s EXCEPT !.auth = empty]
          [] OTHER -> Return(s, "Panic", "auth")

\* lines 200-211
poll_auth(s0) ==
    LET s == Polls(s0, "auth") p == PollOf(s.auth)
    IN  CASE p = "Ready" -> [s EXCEPT !.auth = empty, !.authed = TRUE]
          [] p = "NotReady" -> s
          [] p = "Err" -> Return([s EXCEPT !.auth = Consumed(@)], "Fatal", "auth")
          [] OTHER -> Return(s, "Panic", "auth")

\* mutant: poll does not look for a track that became eligible
poll_start_skip(s, t, r) == s

\* lines 213-215
poll_start(s, t, r) ==
    IF can_scrobble_track(s, t) THEN start_scrobble(s, r) ELSE s

\* mutant: a completed submission does not mark the track scrobbled
poll_scrobble_noflag(s0) ==
    IF ~IsSome(s0.scrobble) THEN s0
    ELSE LET s == Polls(s0, "scrobble")
             f == Unwrap(s.scrobble)
             p == PollOf(f)
         IN  CASE p = "Ready" ->
                    [s EXCEPT !.scrobble = None, !.ok = @ \cup {f.inst}, !.done = f.inst]
               [] p = "NotReady" -> Return(s, "Pending", "none")
               [] p = "Err" ->
                    Return([s EXCEPT !.scrobble = Some(Consumed(f))], "Fatal", "scrobble")
               [] OTHER -> Return(s, "Panic", "scrobble")

\* lines 217-239
poll_scrobble(s0) ==
    IF ~IsSome(s0.scrobble) THEN s0
    ELSE LET s == Polls(s0, "scrobble")
             f == Unwrap(s.scrobble)
             p == PollOf(f)
         IN  CASE p = "Ready" ->
                    [s EXCEPT !.scrobble = None, !.scrobbled = TRUE,
                              !.ok = @ \cup {f.inst}, !.done = f.inst]
               [] p = "NotReady" -> Return(s, "Pending", "none")
               [] p = "Err" ->
                    Return([s EXCEPT !.scrobble = Some(Consumed(f))], "Fatal", "scrobble")
               [] OTHER -> Return(s, "Panic", "scrobble")

\* mutant: the scrobbled flag is not reset when the track change is seen
poll_new_track_norearm(s0) ==
    LET s == Polls(s0, "new_track") p == PollOf(s.new_track)
    IN  CASE p = "Ready" ->
               LET s1 == [s EXCEPT !.new_track = empty]
               IN  IF IsSome(s1.id)
                   THEN [s1 EXCEPT !.meta_fetch = get_track_meta(s1, Unwrap(s1.id)),
                                   !.fetches = Append(@, [track |-> Unwrap(s1.id), inst |-> s1.inst])]
                   ELSE s1
          [] p = "NotReady" -> s
          [] p = "Err" -> Return([s EXCEPT !.new_track = Consumed(@)], "Fatal", "new_track")
          [] OTHER -> Return(s, "Panic", "new_track")

\* mutant: the track change is acknowledged but no metadata fetch is started
poll_new_track_nofetch(s0) ==
    LET s == Polls(s0, "new_track") p == PollOf(s.new_track)
    IN  CASE p = "Ready" -> [s EXCEPT !.new_track = empty, !.scrobbled = FALSE]
          [] p = "NotReady" -> s
          [] p = "Err" -> Return([s EXCEPT !.new_track = Consumed(@)], "Fatal", "new_track")
          [] OTHER -> Return(s, "Panic", "new_track")

\* mutant: a fetch still in its slot is not replaced
poll_new_track_keepfetch(s0) ==
    LET s == Polls(s0, "new_track") p == PollOf(s.new_track)
    IN  CASE p = "Ready" ->
               LET s1 == [s EXCEPT !.new_track = empty, !.scrobbled = FALSE]
               IN  IF IsSome(s1.id) /\ s1.meta_fetch = empty
                   THEN [s1 EXCEPT !.meta_fetch = get_track_meta(s1, Unwrap(s1.id)),
                                   !.fetches = Append(@, [track |-> Unwrap(s1.id), inst |-> s1.inst])]
                   ELSE s1
          [] p = "NotReady" -> s
          [] p = "Err" -> Return([s EXCEPT !.new_track = Consumed(@)], "Fatal", "new_track")
          [] OTHER -> Return(s, "Panic", "new_track")

\* lines 241-262
poll_new_track(s0) ==
    LET s == Polls(s0, "new_track") p == PollOf(s.new_track)
    IN  CASE p = "Ready" ->
               LET s1 == [s EXCEPT !.new_track = empty, !.scrobbled = FALSE]
               IN  IF IsSome(s1.id)
                   THEN [s1 EXCEPT !.meta_fetch = get_track_meta(s1, Unwrap(s1.id)),
                                   !.fetches = Append(@, [track |-> Unwrap(s1.id), inst |-> s1.inst])]
                   ELSE s1
          [] p = "NotReady" -> s
          [] p = "Err" -> Return([s EXCEPT !.new_track = Consumed(@)], "Fatal", "new_track")
          [] OTHER -> Return(s, "Panic", "new_track")

\* mutant: an unfinished metadata fetch ends the poll, as an unfinished
\* scrobble does
poll_meta_fetch_blocking(s0, r) ==
    LET s == Polls(s0, "meta_fetch") p == PollOf(s.meta_fetch)
    IN  CASE p = "Ready" ->
               LET track == Unwrap(s.meta_fetch.val)
                   s1 == send_now_playing([s EXCEPT !.meta_fetch = empty], track, r)
               IN  [s1 EXCEPT !.meta = Some(track)]
          [] p = "NotReady" -> Return(s, "Pending", "none")
          [] p = "Err" -> Return([s EXCEPT !.meta_fetch = Consumed(@)], "Fatal", "meta_fetch")
          [] OTHER -> Return([s EXCEPT !.meta_fetch = Consumed(@)], "Panic", "meta_fetch")

\* mutant: the completed fetch is left in its slot
poll_meta_fetch_noclear(s0, r) ==
    LET s == Polls(s0, "meta_fetch") p == PollOf(s.meta_fetch)
    IN  CASE p = "Ready" ->
               LET track == Unwrap(s.meta_fetch.val)
                   s1 == send_now_playing(s, track, r)
               IN  [s1 EXCEPT !.meta = Some(track)]
          [] p = "NotReady" -> s
          [] p = "Err" -> Return([s EXCEPT !.meta_fetch = Consumed(@)], "Fatal", "meta_fetch")
          [] OTHER -> Return([s EXCEPT !.meta_fetch = Consumed(@)], "Panic", "meta_fetch")

\* lines 264-277
poll_meta_fetch(s0, r) ==
    LET s == Polls(s0, "meta_fetch") p == PollOf(s.meta_fetch)
    IN  CASE p = "Ready" ->
               LET track == Unwrap(s.meta_fetch.val)
                   s1 == send_now_playing([s EXCEPT !.meta_fetch = empty], track, r)
               IN  [s1 EXCEPT !.meta = Some(track)]
          [] p = "NotReady" -> s
          [] p = "Err" -> Return([s EXCEPT !.meta_fetch = Consumed(@)], "Fatal", "meta_fetch")
          [] OTHER -> Return([s EXCEPT !.meta_fetch = Consumed(@)], "Panic", "meta_fetch")

\* mutant: a failed now-playing notification is logged and ignored
poll_now_playing_ignore(s0) ==
    LET s == Polls(s0, "now_playing") p == PollOf(s.now_playing)
    IN  CASE p = "Ready" -> [s EXCEPT !.now_playing = empty]
          [] p = "NotReady" -> s
          [] p = "Err" -> [s EXCEPT !.now_playing = Consumed(@)]
          [] OTHER -> Return(s, "Panic", "now_playing")

\* lines 279-290
poll_now_playing(s0) ==
    LET s == Polls(s0, "now_playing") p == PollOf(s.now_playing)
    IN  CASE p = "Ready" -> [s EXCEPT !.now_playing = empty]
          [] p = "NotReady" -> s
          [] p = "Err" -> Return([s EXCEPT !.now_playing = Consumed(@)], "Fatal", "now_playing")
          [] OTHER -> Return(s, "Panic", "now_playing")

\* sc, np: what the backend answers to a scrobble / now-playing call made
\* during this poll
\* (each statement's result is bound as the element of a one-element set, so
\* that it is computed once)
poll_body(s, t, sc, np) ==
    LET A == {poll_auth(s)}
        B == {IF Running(a) THEN poll_start(a, t, sc) ELSE a : a \in A}
        C == {IF Running(b) THEN poll_scrobble(b) ELSE b : b \in B}
        D == {IF Running(c) THEN poll_new_track(c) ELSE c : c \in C}
        E == {IF Running(d) THEN poll_meta_fetch(d, np) ELSE d : d \in D}
        F == {IF Running(e) THEN poll_now_playing(e) ELSE e : e \in E}
        G == {IF Running(f) THEN Return(f, "Pending", "none") ELSE f : f \in F}
    IN  CHOOSE g \in G : TRUE

poll(sc, np) ==
    \E s \in {poll_body(Self, now, sc, np)} :
        /\ Store(s)
        /\ last' = [op |-> "poll", ret |-> s.ret, polled |-> s.polled,
                    failAt |-> s.failAt, snap |-> s.snap, done |-> s.done,
                    log0 |-> Len(backend_log)]
        /\ UNCHANGED now

\* ---- environment ----
\* the resolver chain of get_track_meta (lines 122-132) reaches its outcome:
\* the Scrobble, a lookup error, or a track without artists
resolve(outcome) ==
    /\ meta_fetch_future.st = "pending"
    /\ meta_fetch_future' = [meta_fetch_future EXCEPT !.st = outcome]
    /\ last' = NoCall
    /\ UNCHANGED <<current_track_id, current_track_start, current_track_meta,
                   current_track_scrobbled, auth_future, new_track_future,
                   now_playing_future, scrobble_future, now, inst,
                   backend_log, fetch_log, authenticated, scrobbled_ok>>

\* a second passes; the clock starts with the first track
tick ==
    /\ IsSome(current_track_start)
    /\ now < MaxTime
    /\ now' = now + 1
    /\ last' = NoCall
    /\ UNCHANGED <<progvars, inst, backend_log, fetch_log, authenticated, scrobbled_ok>>

Next ==
    \/ \E id \in Tracks, f \in BOOLEAN, r \in Results : update_current_track(id, f, r)
    \/ \E sc \in Results, np \in Results : poll(sc, np)
    \/ \E o \in {"ok", "err", "noartists"} : resolve(o)
    \/ tick

Spec == Init /\ [][Next]_vars

\* ---- the tracker with a driver that keeps polling and collaborators that
\* ---- always succeed ----
LiveInit == Init /\ auth_future.st = "ok"

LiveNext ==
    \/ \E id \in Tracks, f \in BOOLEAN : update_current_track(id, f, "ok")
    \/ poll("ok", "ok")
    \/ resolve("ok")
    \/ tick

SpecLive ==
    /\ LiveInit /\ [][LiveNext]_vars
    /\ WF_vars(poll("ok", "ok"))
    /\ WF_vars(resolve("ok"))
    /\ WF_vars(tick)

\* ---- derived views of the state ----
Elapsed == IF IsSome(current_track_start) THEN now - Unwrap(current_track_start) ELSE 0
CanScrobble == can_scrobble_track(Self, now)
ScrobbleStarts(log, i) ==
    Cardinality({k \in 1..Len(log) : log[k].call = "scrobble" /\ log[k].inst = i})
SlotOrder == <<"auth", "scrobble", "new_track", "meta_fetch", "now_playing">>
SlotIndex(sl) == CHOOSE k \in 1..Len(SlotOrder) : SlotOrder[k] = sl
LaterSlots(sl) == {SlotOrder[k] : k \in (SlotIndex(sl) + 1)..Len(SlotOrder)}
SlotSt(sl) ==
    CASE sl = "auth" -> auth_future.st
      [] sl = "scrobble" -> IF IsSome(scrobble_future) THEN Unwrap(scrobble_future).st ELSE "none"
      [] sl = "new_track" -> new_track_future.st
      [] sl = "meta_fetch" -> meta_fetch_future.st
      [] OTHER -> now_playing_future.st

\* C1: once the scrobble submission of a track instance has been seen to
\* complete successfully, no later step starts another submission for that
\* instance.
C1_NoDoubleScrobble ==
    [][\A i \in scrobbled_ok :
         ScrobbleStarts(backend_log', i) = ScrobbleStarts(backend_log, i)]_vars

\* a poll after the current track's submission completed, with the threshold
\* elapsed, that started nothing
C1_Witness ==
    /\ last.op = "poll" /\ last.ret = "Pending" /\ last.done = 0
    /\ inst \in scrobbled_ok /\ current_track_scrobbled
    /\ Elapsed > Threshold
    /\ ScrobbleStarts(backend_log, inst) = 1

\* C2 as stated: a forced track change on an eligible current track starts a
\* scrobble submission carrying that track's data.
C2_Original ==
    [][(last'.op = "update" /\ last'.force /\ CanScrobble)
        => /\ IsSome(current_track_meta)
           /\ backend_log' = Append(backend_log,
                  [call |-> "scrobble", meta |-> Unwrap(current_track_meta), inst |-> inst])
           /\ IsSome(scrobble_future')]_vars

\* C2 amended: a forced track change on an eligible current track whose
\* metadata is set starts a scrobble submission for the outgoing track instance,
\* carrying the outgoing track's metadata, and the track is then replaced.
C2_ScrobbleThenReplace ==
    [][(last'.op = "update" /\ last'.force /\ CanScrobble /\ IsSome(current_track_meta))
        => /\ backend_log' = Append(backend_log,
                  [call |-> "scrobble", meta |-> Unwrap(current_track_meta), inst |-> inst])
           /\ Unwrap(current_track_meta).track = Unwrap(current_track_id)
           /\ IsSome(scrobble_future') /\ Unwrap(scrobble_future').inst = inst
           /\ inst' = inst + 1
           /\ current_track_id' = Some(last'.id)
           /\ current_track_meta' = None]_vars

\* the outgoing track's submission is in the slot, the new track is current
C2_Witness ==
    /\ last.op = "update" /\ last.force
    /\ IsSome(scrobble_future) /\ Unwrap(scrobble_future).inst = inst - 1
    /\ Len(backend_log) > 0
    /\ backend_log[Len(backend_log)].call = "scrobble"
    /\ backend_log[Len(backend_log)].inst = inst - 1
    /\ current_track_meta = None

\* C3 as stated: eligible iff not scrobbled, nothing in flight and at least
\* Threshold seconds elapsed.
C3_Original ==
    CanScrobble <=> (/\ ~current_track_scrobbled
                     /\ ~IsSome(scrobble_future)
                     /\ IsSome(current_track_start)
                     /\ Elapsed >= Threshold)

\* C3 amended: eligible iff not scrobbled, nothing in flight and more than
\* Threshold seconds elapsed; not eligible at 19 s and at exactly 20 s,
\* eligible at 21 s.
C3_Eligibility ==
    /\ CanScrobble <=> (/\ ~current_track_scrobbled
                        /\ ~IsSome(scrobble_future)
                        /\ IsSome(current_track_start)
                        /\ Elapsed > Threshold)
    /\ Elapsed \in {19, 20} => ~CanScrobble
    /\ (IsSome(current_track_start) /\ Elapsed = 21 /\ ~current_track_scrobbled
          /\ ~IsSome(scrobble_future)) => CanScrobble

\* exactly Threshold seconds into a track that is otherwise eligible
C3_Witness ==
    /\ IsSome(current_track_start) /\ Elapsed = Threshold
    /\ ~current_track_scrobbled /\ ~IsSome(scrobble_future)
    /\ IsSome(current_track_meta)
    /\ ~CanScrobble

\* C4: update_current_track(id, false) with id the current track's id changes
\* no field and no slot, and calls nothing.
C4_Idempotent ==
    [][(last'.op = "update" /\ ~last'.force /\ current_track_id = Some(last'.id))
        => UNCHANGED <<progvars, inst, backend_log, scrobbled_ok, now>>]_vars

\* a repeated report of the current track, after its metadata arrived and
\* time has passed
C4_Witness ==
    /\ last.op = "update" /\ ~last.force /\ current_track_id = Some(last.id)
    /\ IsSome(current_track_meta)
    /\ Elapsed > Threshold

\* C5: between calls, scrobbled implies that the metadata is set.
C5_ScrobbledHasMeta == current_track_scrobbled => IsSome(current_track_meta)

C5_Witness ==
    /\ current_track_scrobbled /\ IsSome(current_track_meta)
    /\ last.op = "poll" /\ last.done = inst

\* C6: between calls, the scrobbled flag is set only if a submission started
\* for the current track instance has completed; the completion of the
\* previous instance's submission leaves it false.
C6_NoRetroactiveMark ==
    /\ current_track_scrobbled => inst \in scrobbled_ok
    /\ (last.op = "poll" /\ last.done # 0 /\ last.done # inst) => ~current_track_scrobbled

\* a poll that saw the previous instance's submission complete
C6_Witness ==
    /\ last.op = "poll" /\ last.done # 0 /\ last.done # inst
    /\ last.ret = "Pending"
    /\ ~current_track_scrobbled

C8_AuthFatal ==
    [][/\ (last'.op = "poll" /\ auth_future.st = "err")
            => (last'.ret = "Fatal" /\ last'.failAt = "auth")
       /\ (last'.op = "poll" /\ auth_future.st \in {"err", "consumed"})
            => (/\ last'.polled = {"auth"}
                /\ last'.ret # "Pending"
                /\ UNCHANGED <<scrobble_future, meta_fetch_future, now_playing_future,
                               new_track_future, current_track_meta,
                               current_track_scrobbled, backend_log, scrobbled_ok>>)
       /\ auth_future.st = "consumed"
            => (/\ backend_log' = <<>> /\ scrobble_future' = None
                /\ meta_fetch_future' = empty /\ now_playing_future' = empty
                /\ current_track_meta' = None)]_vars

\* a poll after the failed one, with a track change waiting to be seen
C8_Witness ==
    /\ auth_future.st = "consumed"
    /\ last.op = "poll" /\ last.ret = "Panic"
    /\ new_track_future.st = "ok"
    /\ Elapsed > Threshold

\* C9: a slot that reports an error ends the poll with Err at that step: no
\* later slot is polled, and the track's fields are as they were when the
\* failing step began.
C9_FailFast ==
    last.op = "poll" =>
        /\ \A sl \in {"scrobble", "new_track", "meta_fetch", "now_playing"} :
              /\ (sl \in last.polled /\ SlotSt(sl) = "consumed")
                    => (last.failAt = sl /\ last.ret \in {"Fatal", "Panic"})
              /\ sl \in last.polled => SlotSt(sl) # "err"
              /\ (last.ret = "Fatal" /\ last.failAt = sl)
                    => /\ last.polled \cap LaterSlots(sl) = {}
                       /\ SlotSt(sl) = "consumed"
                       /\ last.snap = [meta |-> current_track_meta,
                                       scrobbled |-> current_track_scrobbled]
        /\ last.ret = "Fatal" => last.failAt # "none"

\* the scrobble submission failed while a track change was waiting
C9_Witness ==
    /\ last.op = "poll" /\ last.ret = "Fatal" /\ last.failAt = "scrobble"
    /\ new_track_future.st = "ok"
    /\ "new_track" \notin last.polled

\* C10 as stated: the poll that observes the fetch of a track without artists
\* returns Err and stores no metadata.
C10_EmptyArtistsFatal ==
    [][(/\ last'.op = "poll"
        /\ meta_fetch_future.st = "noartists"
        /\ "meta_fetch" \in last'.polled
        /\ new_track_future.st # "ok")
        => (last'.ret = "Fatal" /\ current_track_meta' = current_track_meta)]_vars

\* poll has returned Err or panicked before: the driver is to stop calling
Halted ==
    \E sl \in {"auth", "scrobble", "new_track", "meta_fetch", "now_playing"} :
        SlotSt(sl) = "consumed"

\* C11 as stated, for the calls made before any failure: poll returns
\* NotReady or Err, and NotReady whenever no polled slot reported an error.
C11_PendingOrFatal ==
    [][(last'.op = "poll" /\ ~Halted)
        => /\ last'.ret \in {"Pending", "Fatal"}
           /\ last'.failAt = "none" => last'.ret = "Pending"]_vars

\* C12: Scrobbler::new leaves no current track, four slots idle and the
\* authentication future in its slot; the poll that sees it Ready clears the
\* slot and returns NotReady; from then on the slot stays empty.
C12_AuthOneShot ==
    /\ []((inst = 0 /\ auth_future.st \in Results)
            => /\ current_track_id = None /\ current_track_start = None
               /\ current_track_meta = None /\ ~current_track_scrobbled
               /\ new_track_future = empty /\ meta_fetch_future = empty
               /\ now_playing_future = empty /\ scrobble_future = None)
    /\ [][/\ (last'.op = "poll" /\ auth_future.st = "ok")
               => (auth_future' = empty /\ last'.ret = "Pending")
          /\ auth_future = empty => auth_future' = empty
          /\ auth_future.st = "ok" => auth_future'.st \in {"ok", "empty"}]_vars

\* authentication was seen to succeed, and the slot is still empty after a
\* track was played and its metadata fetched
C12_Witness ==
    /\ auth_future = empty
    /\ last.op = "poll" /\ last.ret = "Pending"
    /\ inst = MaxInst
    /\ IsSome(current_track_meta)
    /\ now > 0

Calls(log, call, i) ==
    Cardinality({k \in 1..Len(log) : log[k].call = call /\ log[k].inst = i})
Fetches(log, i) == Cardinality({k \in 1..Len(log) : log[k].inst = i})

\* C13: an accepted update_current_track(id, force) leaves the current track
\* with that id, started now, without metadata, not scrobbled, and the
\* track-change future ready; the poll that reaches a ready track-change
\* future clears it and starts one metadata fetch, for the track current then;
\* no other step starts a fetch.
C13_AcceptedChange ==
    [][/\ (/\ last'.op = "update"
           /\ (last'.force \/ current_track_id # Some(last'.id)))
            => /\ current_track_id' = Some(last'.id)
               /\ current_track_start' = Some(now')
               /\ current_track_meta' = None
               /\ ~current_track_scrobbled'
               /\ new_track_future'.st = "ok"
               /\ inst' = inst + 1
               /\ fetch_log' = fetch_log
       /\ (/\ last'.op = "poll"
           /\ new_track_future.st = "ok"
           /\ "new_track" \in last'.polled)
            => /\ new_track_future' = empty
               /\ fetch_log' = Append(fetch_log,
                      [track |-> Unwrap(current_track_id), inst |-> inst])
               /\ meta_fetch_future'.inst = inst
               /\ meta_fetch_future'.st = "pending"
               /\ Unwrap(meta_fetch_future'.val).track = Unwrap(current_track_id)
       /\ fetch_log' # fetch_log
            => (/\ last'.op = "poll" /\ new_track_future.st = "ok"
                /\ Len(fetch_log') = Len(fetch_log) + 1)]_vars

\* two track changes were accepted before a poll: only the second got a fetch
C13_Witness ==
    /\ last.op = "poll"
    /\ inst = 2
    /\ fetch_log = <<[track |-> Unwrap(current_track_id), inst |-> 2]>>
    /\ new_track_future = empty
    /\ meta_fetch_future.st = "pending"

\* C14: the poll that sees the metadata fetch Ready stores the Scrobble as the
\* current track's metadata, empties the fetch slot and sends the now-playing
\* notification with that Scrobble; no other step sends one, so there is at
\* most one per fetch started.
C14_MetadataCompletion ==
    /\ [](\A i \in 1..(MaxInst + 1) :
            Calls(backend_log, "now_playing", i) <= Fetches(fetch_log, i))
    /\ [][/\ (/\ last'.op = "poll"
              /\ meta_fetch_future.st = "ok"
              /\ new_track_future.st # "ok"
              /\ "meta_fetch" \in last'.polled)
               => /\ current_track_meta' = meta_fetch_future.val
                  /\ meta_fetch_future' = empty
                  /\ backend_log' = Append(backend_log,
                         [call |-> "now_playing",
                          meta |-> Unwrap(meta_fetch_future.val), inst |-> inst])
          /\ (\E i \in 1..(MaxInst + 1) :
                Calls(backend_log', "now_playing", i) # Calls(backend_log, "now_playing", i))
               => /\ last'.op = "poll"
                  /\ meta_fetch_future.st = "ok"
                  /\ new_track_future.st # "ok"
                  /\ \A i \in 1..(MaxInst + 1) :
                        Calls(backend_log', "now_playing", i)
                          <= Calls(backend_log, "now_playing", i) + 1]_vars

\* both tracks had their metadata fetched and announced, one notification each
C14_Witness ==
    /\ last.op = "poll"
    /\ Len(fetch_log) = 2
    /\ Calls(backend_log, "now_playing", 1) = 1
    /\ Calls(backend_log, "now_playing", 2) = 1
    /\ Len(backend_log) = last.log0 + 1
    /\ backend_log[Len(backend_log)].meta = Unwrap(current_track_meta)
    /\ meta_fetch_future = empty

\* C15 as stated: a poll that gets past the authentication step with the
\* current track eligible starts a scrobble submission in that call and polls
\* it.
C15_Original ==
    [][(/\ last'.op = "poll"
        /\ auth_future.st \notin {"err", "consumed"}
        /\ CanScrobble)
        => /\ Len(backend_log') > Len(backend_log)
           /\ backend_log'[Len(backend_log) + 1].call = "scrobble"
           /\ "scrobble" \in last'.polled]_vars

\* C15 amended: a poll that gets past the authentication step with the
\* current track eligible and its metadata set starts a scrobble submission
\* for the current track, with its metadata, and polls it in that call; with
\* the metadata absent it starts none.
C15_ProactiveStart ==
    [][/\ (/\ last'.op = "poll"
           /\ auth_future.st \notin {"err", "consumed"}
           /\ CanScrobble /\ IsSome(current_track_meta))
            => /\ Len(backend_log') > Len(backend_log)
               /\ backend_log'[Len(backend_log) + 1] =
                     [call |-> "scrobble", meta |-> Unwrap(current_track_meta),
                      inst |-> inst]
               /\ "scrobble" \in last'.polled
               /\ last'.ret = "Pending" => last'.done = inst
       /\ (/\ last'.op = "poll"
           /\ CanScrobble /\ ~IsSome(current_track_meta))
            => /\ Calls(backend_log', "scrobble", inst) = Calls(backend_log, "scrobble", inst)
               /\ "scrobble" \notin last'.polled]_vars

\* a poll started the submission for the second track and saw it complete
C15_Witness ==
    /\ last.op = "poll" /\ last.ret = "Pending"
    /\ last.done = inst /\ inst = 2
    /\ Len(backend_log) = last.log0 + 1
    /\ backend_log[Len(backend_log)] =
          [call |-> "scrobble", meta |-> Unwrap(current_track_meta), inst |-> inst]
    /\ current_track_scrobbled

\* C16: with poll called again and again and every collaborator call
\* succeeding, a track that stays current gets its metadata stored and is
\* eventually scrobbled.
C16_EventuallyScrobbled ==
    \A i \in 1..MaxInst :
        (inst = i) ~> (\/ inst # i
                       \/ /\ IsSome(current_track_meta)
                          /\ Unwrap(current_track_meta).inst = i
                          /\ current_track_scrobbled
                          /\ i \in scrobbled_ok)

\* the first track was never replaced and is scrobbled after the threshold
C16_Witness ==
    /\ inst = 1 /\ Len(fetch_log) = 1
    /\ current_track_scrobbled /\ 1 \in scrobbled_ok
    /\ Elapsed > Threshold
    /\ backend_log = <<[call |-> "now_playing", meta |-> Unwrap(current_track_meta), inst |-> 1],
                       [call |-> "scrobble", meta |-> Unwrap(current_track_meta), inst |-> 1]>>

\* C17: the stored metadata is always the result of a fetch started for the
\* current track instance, and every now-playing notification carries the
\* result of a fetch started for the instance that is current when it is sent;
\* the fetch of a replaced track is never applied.
C17_StaleMetadataDiscarded ==
    /\ IsSome(current_track_meta)
         => /\ Unwrap(current_track_meta).inst = inst
            /\ Unwrap(current_track_meta).track = Unwrap(current_track_id)
    /\ \A k \in 1..Len(backend_log) :
         backend_log[k].call = "now_playing"
            => backend_log[k].meta.inst = backend_log[k].inst
    /\ \A i \in 1..(MaxInst + 1) :
         (i # inst /\ Calls(backend_log, "now_playing", i) = 0)
            => (\A k \in 1..Len(backend_log) : backend_log[k].meta.inst # i)

\* the first track's fetch was started and then superseded: nothing of it was
\* stored or announced, the second track's result was
C17_Witness ==
    /\ inst = 2
    /\ Fetches(fetch_log, 1) = 1 /\ Fetches(fetch_log, 2) = 1
    /\ Calls(backend_log, "now_playing", 1) = 0
    /\ Calls(backend_log, "now_playing", 2) = 1
    /\ IsSome(current_track_meta)
    /\ Unwrap(current_track_meta).inst = 2

\* C18: every scrobble submission is started while the current track has
\* metadata and carries that metadata; when start_scrobble runs without
\* metadata, from update_current_track or from poll, nothing is submitted and
\* the slot is None.
C18_ScrobbleNeedsMeta ==
    [][/\ \A k \in (Len(backend_log) + 1)..Len(backend_log') :
            backend_log'[k].call = "scrobble"
              => /\ IsSome(current_track_meta)
                 /\ backend_log'[k].meta = Unwrap(current_track_meta)
                 /\ backend_log'[k].inst = inst
       /\ (/\ CanScrobble /\ ~IsSome(current_track_meta)
           /\ \/ last'.op = "update" /\ (last'.force \/ current_track_id # Some(last'.id))
              \/ last'.op = "poll" /\ auth_future.st \notin {"err", "consumed"})
            => /\ \A k \in (Len(backend_log) + 1)..Len(backend_log') :
                     backend_log'[k].call # "scrobble"
               /\ scrobble_future' = None]_vars

\* a poll ran start_scrobble for a track past the threshold whose metadata had
\* not arrived
C18_Witness ==
    /\ last.op = "poll" /\ "new_track" \in last.polled
    /\ current_track_meta = None
    /\ Elapsed > Threshold
    /\ ~current_track_scrobbled /\ scrobble_future = None
    /\ meta_fetch_future.st = "pending"
    /\ backend_log = <<>>

\* C19: no now-playing notification and no scrobble is sent before a poll has
\* seen the authentication succeed.
C19_AuthBeforeBackend ==
    backend_log # <<>> => (authenticated /\ auth_future = empty)

\* the first call to the backend
C19_Witness ==
    /\ Len(backend_log) = 1
    /\ backend_log[1].call = "now_playing"
    /\ authenticated

\* a submission started and not yet seen to complete or fail
InFlight == IsSome(scrobble_future) /\ Unwrap(scrobble_future).st \in Results

====
